---- MODULE Spec2Model ----
(***************************************************************************)
(* String Analyzer Service (src/main.py): an in-memory store of analysed   *)
(* strings keyed by the SHA-256 of the exact text, with create / get /     *)
(* list-with-filters / natural-language filter / delete handlers.          *)
(*                                                                         *)
(* A Python str is a sequence of one-character strings.  A dict is a       *)
(* sequence of [key, item] entries in insertion order (Python dicts keep   *)
(* insertion order; assigning an existing key keeps its position).         *)
(***************************************************************************)
EXTENDS Integers, Sequences, FiniteSets, TLC

VARIABLES
  STORE,    \* the module-level dict STORE
  now,      \* the clock utc_now_iso_z() reads
  resp,     \* the last response sent
  threads,  \* the requests the threadpool is running, each with its place
  pending   \* the natural-language query waiting to be served

vars == <<STORE, now, resp, threads, pending>>

(***************************************************************************)
(* Bounds of the model.                                                    *)
(***************************************************************************)
\* utc_now_iso_z() returns a value in 0..MaxClock
MaxClock == 1
\* min_length / max_length / word_count query parameters range over 1..MaxParam
MaxParam == 2
\* a natural-language query is the concatenation of 1..MaxFrags fragments
MaxFrags == 3
\* the requests the threadpool runs at once
NumThreads == 3

(***************************************************************************)
(* Characters.                                                             *)
(***************************************************************************)
\* the characters of the model's texts, each with its code point: space,
\* hyphen, underscore, the digits and the letters
Digits == <<"0", "1", "2", "3", "4", "5", "6", "7", "8", "9">>

Uppers ==
  <<"A", "B", "C", "D", "E", "F", "G", "H", "I", "J", "K", "L", "M",
    "N", "O", "P", "Q", "R", "S", "T", "U", "V", "W", "X", "Y", "Z">>

Lowers ==
  <<"a", "b", "c", "d", "e", "f", "g", "h", "i", "j", "k", "l", "m",
    "n", "o", "p", "q", "r", "s", "t", "u", "v", "w", "x", "y", "z">>

\* regex \d
IsDigit(c) == \E i \in 1..Len(Digits) : Digits[i] = c

\* str.isupper() for one ASCII character
IsUpperAZ(c) == \E i \in 1..Len(Uppers) : Uppers[i] = c

\* regex [a-z]
IsLowerAZ(c) == \E i \in 1..Len(Lowers) : Lowers[i] = c

\* the place of c in the sequence tbl that holds it
IndexIn(tbl, c) == CHOOSE i \in 1..Len(tbl) : tbl[i] = c

\* ord(c)
Ord(c) ==
  CASE c = " " -> 32
    [] c = "-" -> 45
    [] c = "_" -> 95
    [] IsDigit(c) -> 47 + IndexIn(Digits, c)
    [] IsUpperAZ(c) -> 64 + IndexIn(Uppers, c)
    [] IsLowerAZ(c) -> 96 + IndexIn(Lowers, c)

\* str.lower() on one character
LowerChar(c) == IF IsUpperAZ(c) THEN Lowers[IndexIn(Uppers, c)] ELSE c

\* str.lower()
Lower(s) == [i \in 1..Len(s) |-> LowerChar(s[i])]

\* s[::-1]
Reverse(s) == [i \in 1..Len(s) |-> s[Len(s) + 1 - i]]

\* str.isspace() for one character / regex \s
IsSpace(c) == c = " "

\* regex \w
IsWordChar(c) == IsDigit(c) \/ IsLowerAZ(c) \/ IsUpperAZ(c) \/ c = "_"

\* str.strip(): drop leading and trailing whitespace
Strip(s) ==
  LET nonsp == {i \in 1..Len(s) : ~IsSpace(s[i])}
  IN  IF nonsp = {} THEN <<>>
      ELSE LET lo == CHOOSE i \in nonsp : \A j \in nonsp : i <= j
               hi == CHOOSE i \in nonsp : \A j \in nonsp : i >= j
           IN  SubSeq(s, lo, hi)

\* s[i:].startswith(pat), i 1-based
StartsAt(s, i, pat) ==
  /\ i + Len(pat) - 1 <= Len(s)
  /\ \A j \in 1..Len(pat) : s[i + j - 1] = pat[j]

\* `pat in s` for strings
Contains(s, pat) == \E i \in 1..(Len(s) + 1) : StartsAt(s, i, pat)

(***************************************************************************)
(* Helpers of src/main.py.                                                  *)
(***************************************************************************)
\* text.encode("utf-8") (ASCII texts: one byte per character)
encode_utf8(text) == [i \in 1..Len(text) |-> Ord(text[i])]

RECURSIVE Digest(_)
\* hashlib.sha256(bytes).hexdigest(): a fixed digest of the exact bytes,
\* collision-free on the texts of the model (the bytes read as a base-256
\* numeral behind a leading 1)
Digest(bytes) ==
  IF bytes = <<>> THEN 1
  ELSE 256 * Digest(SubSeq(bytes, 1, Len(bytes) - 1)) + bytes[Len(bytes)]

\* the digest of the lowercased text: identity that ignores case
sha256_lower(text) == Digest(encode_utf8(Lower(text)))

sha256_of(text) == Digest(encode_utf8(text))

character_frequency_map(value) ==
  [ch \in {value[i] : i \in 1..Len(value)} |->
     Cardinality({i \in 1..Len(value) : value[i] = ch})]

\* len(value.strip().split()): the maximal runs of non-whitespace
WordCount(value) ==
  Cardinality({i \in 1..Len(value) :
                 /\ ~IsSpace(value[i])
                 /\ (i = 1 \/ IsSpace(value[i - 1]))})

analyze_properties(value) ==
  [ length                  |-> Len(value),
    is_palindrome           |-> Lower(value) = Lower(Reverse(value)),
    unique_characters       |-> Cardinality({value[i] : i \in 1..Len(value)}),
    word_count              |-> IF Strip(value) = <<>> THEN 0 ELSE WordCount(Strip(value)),
    sha256_hash             |-> sha256_of(value),
    character_frequency_map |-> character_frequency_map(value) ]

utc_now_iso_z == now

make_item(value) ==
  LET props == analyze_properties(value)
  IN  [ id         |-> props.sha256_hash,
        value      |-> value,
        properties |-> props,
        created_at |-> utc_now_iso_z ]

(***************************************************************************)
(* The dict STORE: sha256_hash -> item.                                    *)
(***************************************************************************)
\* key in d
DictHas(d, k) == \E i \in 1..Len(d) : d[i].key = k

\* d[key] (for a key of d)
DictGet(d, k) == d[CHOOSE i \in 1..Len(d) : d[i].key = k].item

\* d[key] = item
DictSet(d, k, item) ==
  IF DictHas(d, k)
  THEN [i \in 1..Len(d) |-> IF d[i].key = k THEN [key |-> k, item |-> item] ELSE d[i]]
  ELSE Append(d, [key |-> k, item |-> item])

\* d.clear() in place of del d[key]
DictClear(d, k) == <<>>

\* del d[key] (for a key of d)
DictDel(d, k) ==
  LET at == CHOOSE i \in 1..Len(d) : d[i].key = k
  IN  SubSeq(d, 1, at - 1) \o SubSeq(d, at + 1, Len(d))

\* list(d.values())
DictValues(d) == [i \in 1..Len(d) |-> d[i].item]

(***************************************************************************)
(* Inputs: the strings submitted to the service, the query parameters of   *)
(* GET /strings and the natural-language queries.                          *)
(***************************************************************************)
V_Aba == <<"A", "b", "a">>
V_ab == <<"a", "b">>
V_AB == <<"A", "B">>
V_a_b == <<"a", " ", "b">>
V_b == <<"b">>

Values == {V_Aba, V_ab, V_AB, V_a_b}

\* a dict with no key
EmptyDict == [k \in {} |-> TRUE]

\* {key: val}
One(key, val) == [k \in {key} |-> val]

\* key in dict
Has(dict, key) == key \in DOMAIN dict

\* dict[key] = val
Put(dict, key, val) == One(key, val) @@ dict

\* dict.get(key, default)
GetOr(dict, key, default) == IF Has(dict, key) THEN dict[key] ELSE default

\* an Optional query parameter: absent, or one of S
Optional(key, S) == {EmptyDict} \cup {One(key, v) : v \in S}

\* the query parameters of GET /strings: the four numeric and boolean ones
FilterSets ==
  { a @@ b @@ c @@ d :
      a \in Optional("is_palindrome", BOOLEAN),
      b \in Optional("min_length", 1..MaxParam),
      c \in Optional("max_length", 1..MaxParam),
      d \in Optional("word_count", 1..MaxParam) }

\* the query parameters of GET /strings: contains_character (one of them is
\* no single character), alone or beside is_palindrome
CharFilterSets ==
  { a @@ e :
      a \in Optional("is_palindrome", BOOLEAN),
      e \in Optional("contains_character", {<<"a">>, <<"A">>, <<"b">>, <<"B">>, <<"a", "b">>}) }

\* the fragments natural-language queries are made of
F_palindrom == <<"P", "a", "l", "i", "n", "d", "r", "o", "m">>
F_single_word == <<"s", "i", "n", "g", "l", "e", " ", "w", "o", "r", "d">>
F_single_hyphen_word == <<"s", "i", "n", "g", "l", "e", "-", "w", "o", "r", "d">>
F_one_word == <<"o", "n", "e", " ", "w", "o", "r", "d">>
F_longer_than_1 == <<"l", "o", "n", "g", "e", "r", " ", "t", "h", "a", "n", " ", "1">>
F_zero == <<"0">>
F_letter_x == <<"l", "e", "t", "t", "e", "r", " ", "x">>
F_containing_x == <<"c", "o", "n", "t", "a", "i", "n", "i", "n", "g", " ", "x">>
F_first == <<"f", "i", "r", "s", "t", " ">>
F_vowel == <<"v", "o", "w", "e", "l">>

Fragments ==
  {F_palindrom, F_single_word, F_single_hyphen_word, F_one_word,
   F_longer_than_1, F_zero, F_letter_x, F_containing_x,
   F_first, F_vowel}

RECURSIVE Concatenations(_)
\* the texts made of at most n fragments
Concatenations(n) ==
  IF n = 0 THEN {<<>>}
  ELSE LET shorter == Concatenations(n - 1)
       IN  shorter \cup {p \o f : p \in shorter, f \in Fragments}

\* the queries: Query(..., min_length=1) refuses the empty one
Queries == Concatenations(MaxFrags) \ {<<>>}

\* the string stored while natural-language queries are asked
NLValues == {V_Aba}

\* the strings stored while the numeric and boolean filters are asked
FilterValues == {V_b, V_ab, V_Aba, V_a_b}

(***************************************************************************)
(* Responses.  resp is the last response sent: the handler (op), its       *)
(* inputs (value, filters, query), the HTTP status and the body (data,     *)
(* count, parsed: the records, their number, the filters echoed).          *)
(***************************************************************************)
Response(op, value, filters, query, status, data, parsed) ==
  [ op |-> op, value |-> value, filters |-> filters, query |-> query,
    status |-> status, data |-> data, count |-> Len(data), parsed |-> parsed ]

NoResponse == Response("none", <<>>, EmptyDict, <<>>, 0, <<>>, EmptyDict)

(***************************************************************************)
(* 1) POST /strings                                                        *)
(***************************************************************************)
\* create_string without the conflict test of lines 76-78
create_string_overwrite(value) ==
  LET item == make_item(value)
  IN  /\ STORE' = DictSet(STORE, sha256_of(value), item)
      /\ resp' = Response("create", value, EmptyDict, <<>>, 201, <<item>>, EmptyDict)
      /\ UNCHANGED <<now, threads>>

create_string(value) ==
  LET item_id == sha256_of(value)
  IN  IF DictHas(STORE, item_id)
      THEN /\ resp' = Response("create", value, EmptyDict, <<>>, 409, <<>>, EmptyDict)
           /\ UNCHANGED <<STORE, now, threads>>
      ELSE LET item == make_item(value)
           IN  /\ STORE' = DictSet(STORE, item_id, item)
               /\ resp' = Response("create", value, EmptyDict, <<>>, 201, <<item>>, EmptyDict)
               /\ UNCHANGED <<now, threads>>

(***************************************************************************)
(* 2) GET /strings/{string_value}                                          *)
(***************************************************************************)
get_string(string_value) ==
  LET item_id == sha256_of(string_value)
  IN  /\ resp' = IF DictHas(STORE, item_id)
                 THEN Response("get", string_value, EmptyDict, <<>>, 200,
                               <<DictGet(STORE, item_id)>>, EmptyDict)
                 ELSE Response("get", string_value, EmptyDict, <<>>, 404, <<>>, EmptyDict)
      /\ UNCHANGED <<STORE, now, threads>>

(***************************************************************************)
(* 3) GET /strings                                                         *)
(***************************************************************************)
\* lines 114-115
KeepPalindrome(results, filters) ==
  LET Test(r) == r.properties.is_palindrome = filters["is_palindrome"]
  IN  IF Has(filters, "is_palindrome") THEN SelectSeq(results, Test) ELSE results

\* lines 118-121 with > for >=
KeepMinLengthStrict(results, filters) ==
  LET Test(r) == r.properties.length > filters["min_length"]
  IN  IF Has(filters, "min_length") THEN SelectSeq(results, Test) ELSE results

\* lines 118-121
KeepMinLength(results, filters) ==
  LET Test(r) == r.properties.length >= filters["min_length"]
  IN  IF Has(filters, "min_length") THEN SelectSeq(results, Test) ELSE results

\* lines 124-127
KeepMaxLength(results, filters) ==
  LET Test(r) == r.properties.length <= filters["max_length"]
  IN  IF Has(filters, "max_length") THEN SelectSeq(results, Test) ELSE results

\* lines 130-133
KeepWordCount(results, filters) ==
  LET Test(r) == r.properties.word_count = filters["word_count"]
  IN  IF Has(filters, "word_count") THEN SelectSeq(results, Test) ELSE results

\* lines 136-138: `ch in r["value"]`, the character as given
KeepContainsExact(results, filters) ==
  LET Test(r) == Contains(r.value, filters["contains_character"])
  IN  IF Has(filters, "contains_character") THEN SelectSeq(results, Test) ELSE results

\* filters_applied: one key per parameter that is not None
FiltersApplied(filters) ==
  LET f1 == IF Has(filters, "is_palindrome")
            THEN Put(EmptyDict, "is_palindrome", filters["is_palindrome"]) ELSE EmptyDict
      f2 == IF Has(filters, "min_length")
            THEN Put(f1, "min_length", filters["min_length"]) ELSE f1
      f3 == IF Has(filters, "max_length")
            THEN Put(f2, "max_length", filters["max_length"]) ELSE f2
      f4 == IF Has(filters, "word_count")
            THEN Put(f3, "word_count", filters["word_count"]) ELSE f3
  IN  IF Has(filters, "contains_character")
      THEN Put(f4, "contains_character", filters["contains_character"]) ELSE f4

get_all_strings(filters) ==
  IF Has(filters, "contains_character") /\ Len(filters["contains_character"]) # 1
  THEN /\ resp' = Response("list", <<>>, filters, <<>>, 400, <<>>, EmptyDict)
       /\ UNCHANGED <<STORE, now, threads>>
  ELSE LET results == KeepContainsExact(KeepWordCount(KeepMaxLength(KeepMinLength(
                        KeepPalindrome(DictValues(STORE), filters),
                        filters), filters), filters), filters)
       IN  /\ resp' = Response("list", <<>>, filters, <<>>, 200, results,
                               FiltersApplied(filters))
           /\ UNCHANGED <<STORE, now, threads>>

(***************************************************************************)
(* 4) GET /strings/filter-by-natural-language                              *)
(***************************************************************************)
\* the first index >= i of s that holds no whitespace (Len(s) + 1: none)
SkipSpaces(s, i) ==
  LET rest == {j \in i..Len(s) : ~IsSpace(s[j])}
  IN  IF rest = {} THEN Len(s) + 1 ELSE CHOOSE j \in rest : \A k \in rest : j <= k

\* the first index >= i of s that holds no digit (Len(s) + 1: none)
SkipDigits(s, i) ==
  LET rest == {j \in i..Len(s) : ~IsDigit(s[j])}
  IN  IF rest = {} THEN Len(s) + 1 ELSE CHOOSE j \in rest : \A k \in rest : j <= k

\* word\s+ matched at i: the index after the whitespace, 0 when there is no match
AfterWordAndSpaces(s, i, word) ==
  LET j == i + Len(word)
  IN  IF StartsAt(s, i, word) /\ j <= Len(s) /\ IsSpace(s[j]) THEN SkipSpaces(s, j) ELSE 0

\* the least member of a non-empty set of indices (re.search: the leftmost match)
Leftmost(S) == CHOOSE i \in S : \A j \in S : i <= j

RECURSIVE ParseInt(_)
\* int(digits)
ParseInt(digits) ==
  IF digits = <<>> THEN 0
  ELSE 10 * ParseInt(SubSeq(digits, 1, Len(digits) - 1)) + (IndexIn(Digits, digits[Len(digits)]) - 1)

\* re.search(r"longer than\s+(\d+)", q): group(1) as <<digits>>, <<>> for None
SearchLongerThan(q) ==
  LET word == <<"l", "o", "n", "g", "e", "r", " ", "t", "h", "a", "n">>
      At(i) == AfterWordAndSpaces(q, i, word)
      hits == {i \in 1..Len(q) : At(i) > 0 /\ At(i) <= Len(q) /\ IsDigit(q[At(i)])}
  IN  IF hits = {} THEN <<>>
      ELSE <<SubSeq(q, At(Leftmost(hits)), SkipDigits(q, At(Leftmost(hits))) - 1)>>

\* re.search(r"letter\s+([a-z])", q): group(1) as <<letter>>, <<>> for None
SearchLetter(q) ==
  LET word == <<"l", "e", "t", "t", "e", "r">>
      At(i) == AfterWordAndSpaces(q, i, word)
      hits == {i \in 1..Len(q) : At(i) > 0 /\ At(i) <= Len(q) /\ IsLowerAZ(q[At(i)])}
  IN  IF hits = {} THEN <<>> ELSE <<SubSeq(q, At(Leftmost(hits)), At(Leftmost(hits)))>>

\* re.search(r"containing\s+([a-z])\b", q): group(1) as <<letter>>, <<>> for None
SearchContaining(q) ==
  LET word == <<"c", "o", "n", "t", "a", "i", "n", "i", "n", "g">>
      At(i) == AfterWordAndSpaces(q, i, word)
      hits == {i \in 1..Len(q) :
                 /\ At(i) > 0 /\ At(i) <= Len(q) /\ IsLowerAZ(q[At(i)])
                 /\ (At(i) = Len(q) \/ ~IsWordChar(q[At(i) + 1]))}
  IN  IF hits = {} THEN <<>> ELSE <<SubSeq(q, At(Leftmost(hits)), At(Leftmost(hits)))>>

\* line 166
MentionsPalindrome(q) ==
  \/ Contains(q, <<"p", "a", "l", "i", "n", "d", "r", "o", "m">>)
  \/ Contains(q, <<"p", "a", "l", "i", "n", "d", "r", "o", "m", "e">>)

\* line 170
MentionsSingleWord(q) ==
  \/ Contains(q, <<"s", "i", "n", "g", "l", "e", " ", "w", "o", "r", "d">>)
  \/ Contains(q, <<"s", "i", "n", "g", "l", "e", "-", "w", "o", "r", "d">>)

\* line 193
MentionsFirstVowel(q) ==
  \/ Contains(q, <<"f", "i", "r", "s", "t", " ", "v", "o", "w", "e", "l">>)
  \/ /\ Contains(q, <<"f", "i", "r", "s", "t">>)
     /\ Contains(q, <<"v", "o", "w", "e", "l">>)

\* lines 193-195, the heuristic writing over a letter already parsed
FirstVowelOverwrites(parsed_filters, q) ==
  IF MentionsFirstVowel(q)
  THEN Put(Put(parsed_filters, "contains_character", <<"a">>),
           "is_palindrome",
           GetOr(parsed_filters, "is_palindrome", FALSE) \/ MentionsPalindrome(q))
  ELSE parsed_filters

\* lines 192-195
FirstVowelHeuristic(parsed_filters, q) ==
  IF MentionsFirstVowel(q)
  THEN Put(Put(parsed_filters, "contains_character",
               GetOr(parsed_filters, "contains_character", <<"a">>)),
           "is_palindrome",
           GetOr(parsed_filters, "is_palindrome", FALSE) \/ MentionsPalindrome(q))
  ELSE parsed_filters

\* lines 169-171 left out
SingleWordIgnored(parsed_filters, q) == parsed_filters

\* lines 169-171
SingleWordRule(parsed_filters, q) ==
  IF MentionsSingleWord(q) THEN Put(parsed_filters, "word_count", 1) ELSE parsed_filters

\* lines 163-195: parsed_filters for q, the query lowercased and stripped
ParsedFiltersOf(q) ==
  LET p1 == IF MentionsPalindrome(q) THEN One("is_palindrome", TRUE) ELSE EmptyDict
      p2 == SingleWordRule(p1, q)
      m  == SearchLongerThan(q)
      p3 == IF m # <<>> THEN Put(p2, "min_length", ParseInt(m[1]) + 1) ELSE p2
      m2 == SearchLetter(q)
      p4 == IF m2 # <<>> THEN Put(p3, "contains_character", m2[1]) ELSE p3
      m3 == SearchContaining(q)
      p5 == IF m3 # <<>> /\ ~Has(p4, "contains_character")
            THEN Put(p4, "contains_character", m3[1]) ELSE p4
  IN  FirstVowelHeuristic(p5, q)

\* lines 161-195: q = query.lower().strip(), then the rules
ParsedFilters(query) ==
  CHOOSE parsed_filters \in {ParsedFiltersOf(q) : q \in {Strip(Lower(query))}} : TRUE

\* lines 221-223: the character and the value both lowercased
KeepContainsLowered(results, filters) ==
  LET Test(r) == Contains(Lower(r.value), Lower(filters["contains_character"]))
  IN  IF Has(filters, "contains_character") THEN SelectSeq(results, Test) ELSE results

natural_language_filter(query) ==
  \E parsed_filters \in {ParsedFilters(query)} :
    IF parsed_filters = EmptyDict
    THEN /\ resp' = Response("nl", <<>>, EmptyDict, query, 400, <<>>, EmptyDict)
         /\ UNCHANGED <<STORE, now, threads>>
    ELSE IF /\ Has(parsed_filters, "min_length") /\ Has(parsed_filters, "max_length")
            /\ parsed_filters["min_length"] > parsed_filters["max_length"]
    THEN /\ resp' = Response("nl", <<>>, EmptyDict, query, 422, <<>>, EmptyDict)
         /\ UNCHANGED <<STORE, now, threads>>
    ELSE LET results == KeepContainsLowered(KeepWordCount(KeepMaxLength(KeepMinLength(
                          KeepPalindrome(DictValues(STORE), parsed_filters),
                          parsed_filters), parsed_filters), parsed_filters), parsed_filters)
         IN  /\ resp' = Response("nl", <<>>, EmptyDict, query, 200, results, parsed_filters)
             /\ UNCHANGED <<STORE, now, threads>>

(***************************************************************************)
(* 5) DELETE /strings/{string_value}                                       *)
(***************************************************************************)
delete_string(string_value) ==
  LET item_id == sha256_of(string_value)
  IN  IF ~DictHas(STORE, item_id)
      THEN /\ resp' = Response("delete", string_value, EmptyDict, <<>>, 404, <<>>, EmptyDict)
           /\ UNCHANGED <<STORE, now, threads>>
      ELSE /\ STORE' = DictDel(STORE, item_id)
           /\ resp' = Response("delete", string_value, EmptyDict, <<>>, 204, <<>>, EmptyDict)
           /\ UNCHANGED <<now, threads>>

(***************************************************************************)
(* The service, one request at a time.                                     *)
(***************************************************************************)
Threads == 1..NumThreads

Idle == [pc |-> "idle", op |-> "none", value |-> <<>>, status |-> 0]

Init ==
  /\ STORE = <<>>
  /\ now = 0
  /\ resp = NoResponse
  /\ threads = [t \in Threads |-> Idle]
  /\ pending = <<>>

\* the clock read by utc_now_iso_z() advances
Tick ==
  /\ now < MaxClock
  /\ now' = now + 1
  /\ UNCHANGED <<STORE, resp, threads, pending>>

Create == \E value \in Values : create_string(value) /\ UNCHANGED pending

Get == \E value \in Values : get_string(value) /\ UNCHANGED pending

List == get_all_strings(EmptyDict) /\ UNCHANGED pending

Delete == \E value \in Values : delete_string(value) /\ UNCHANGED pending

Next == Tick \/ Create \/ Get \/ List \/ Delete

Spec == Init /\ [][Next]_vars

(***************************************************************************)
(* The filter engine: strings are created and deleted, and listed under    *)
(* every combination of the query parameters.                              *)
(***************************************************************************)
ListFiltered == \E filters \in FilterSets : get_all_strings(filters) /\ UNCHANGED pending

CreateForFilter == \E value \in FilterValues : create_string(value) /\ UNCHANGED pending

DeleteForFilter == \E value \in FilterValues : delete_string(value) /\ UNCHANGED pending

NextFilter == CreateForFilter \/ DeleteForFilter \/ ListFiltered

SpecFilter == Init /\ [][NextFilter]_vars

ListContaining == \E filters \in CharFilterSets : get_all_strings(filters) /\ UNCHANGED pending

NextContains == Create \/ Delete \/ ListContaining

SpecContains == Init /\ [][NextContains]_vars

(***************************************************************************)
(* The natural-language filter: a query arrives, strings are created       *)
(* before and after it is served.                                          *)
(***************************************************************************)
InitNL ==
  /\ STORE = <<>>
  /\ now = 0
  /\ resp = NoResponse
  /\ threads = [t \in Threads |-> Idle]
  /\ pending \in Queries

CreateNL == \E value \in NLValues : create_string(value) /\ UNCHANGED pending

Ask ==
  /\ pending # <<>>
  /\ natural_language_filter(pending)
  /\ pending' = <<>>

NextNL == CreateNL \/ Ask

SpecNL == InitNL /\ [][NextNL]_vars

(***************************************************************************)
(* The service under the threadpool: FastAPI runs each `def` handler in a  *)
(* worker thread, so the handlers of several requests interleave between   *)
(* the membership test on STORE and the statement that changes it.         *)
(***************************************************************************)
\* the strings the concurrent requests are about
ConcValues == {V_ab, V_AB}

Running(op, value, pc) == [pc |-> pc, op |-> op, value |-> value, status |-> 0]

Done(op, value, status) == [pc |-> "done", op |-> op, value |-> value, status |-> status]

\* create_string, lines 61-78: the checks up to the conflict test
BeginCreate(t, value) ==
  /\ threads[t].pc = "idle"
  /\ threads' = [threads EXCEPT ![t] =
                   IF DictHas(STORE, sha256_of(value))
                   THEN Done("create", value, 409)
                   ELSE Running("create", value, "build")]
  /\ UNCHANGED <<STORE, now, resp, pending>>

\* create_string, lines 81-85: build the item, store it, answer 201
FinishCreate(t) ==
  /\ threads[t].pc = "build"
  /\ STORE' = DictSet(STORE, sha256_of(threads[t].value), make_item(threads[t].value))
  /\ threads' = [threads EXCEPT ![t] = Done("create", threads[t].value, 201)]
  /\ UNCHANGED <<now, resp, pending>>

\* delete_string, lines 241-244: the membership test
BeginDelete(t, value) ==
  /\ threads[t].pc = "idle"
  /\ threads' = [threads EXCEPT ![t] =
                   IF ~DictHas(STORE, sha256_of(value))
                   THEN Done("delete", value, 404)
                   ELSE Running("delete", value, "del")]
  /\ UNCHANGED <<STORE, now, resp, pending>>

\* delete_string, lines 245-247: `del STORE[item_id]` raises KeyError when the
\* key is gone, which no handler catches: the request ends 500
FinishDelete(t) ==
  /\ threads[t].pc = "del"
  /\ IF DictHas(STORE, sha256_of(threads[t].value))
     THEN /\ STORE' = DictDel(STORE, sha256_of(threads[t].value))
          /\ threads' = [threads EXCEPT ![t] = Done("delete", threads[t].value, 204)]
     ELSE /\ threads' = [threads EXCEPT ![t] = Done("delete", threads[t].value, 500)]
          /\ UNCHANGED STORE
  /\ UNCHANGED <<now, resp, pending>>

CreateStarts == \E t \in Threads, value \in ConcValues : BeginCreate(t, value)

CreateEnds == \E t \in Threads : FinishCreate(t)

DeleteStarts == \E t \in Threads, value \in ConcValues : BeginDelete(t, value)

DeleteEnds == \E t \in Threads : FinishDelete(t)

NextConc == CreateStarts \/ CreateEnds \/ DeleteStarts \/ DeleteEnds

SpecConc == Init /\ [][NextConc]_vars

(***************************************************************************)
(* Properties.                                                             *)
(***************************************************************************)
\* the store holds a record whose value is exactly v
HoldsValue(store, v) == \E i \in 1..Len(store) : store[i].item.value = v

\* the store without the record whose value is v, the others as they were
Without(store, v) ==
  LET Other(e) == e.item.value # v
  IN  SelectSeq(store, Other)

\* this step is the handler op answering
Served(op) == resp' # resp /\ resp'.op = op

\* C2: a create of a value the store holds is refused with 409 and changes
\* nothing in the store (the record keeps its id, value, properties and
\* created_at, none is added); a create of a value it does not hold succeeds
\* and stores it, so that creating a value twice gives success, then 409.
C2_DuplicateCreateRefused ==
  [][ \A v \in Values :
        (Served("create") /\ resp'.value = v) =>
          IF HoldsValue(STORE, v)
          THEN resp'.status = 409 /\ STORE' = STORE
          ELSE resp'.status = 201 /\ HoldsValue(STORE', v) ]_vars

\* a create was refused for a record made at an earlier time, which is still
\* stored with that time
C2_Witness ==
  /\ resp.op = "create" /\ resp.status = 409
  /\ \E i \in 1..Len(STORE) :
       STORE[i].item.value = resp.value /\ STORE[i].item.created_at < now

\* C3: every entry under key k is a record with id = sha256_hash = k =
\* identity of its own exact value; no two entries share a key or a value;
\* and a create is refused only when that exact value is stored, so values
\* that differ only in case or whitespace are stored side by side.
C3_ContentAddressed ==
  /\ \A i \in 1..Len(STORE) :
       /\ STORE[i].item.id = STORE[i].key
       /\ STORE[i].item.properties.sha256_hash = STORE[i].key
       /\ STORE[i].key = sha256_of(STORE[i].item.value)
       /\ \A j \in 1..Len(STORE) :
            j # i => /\ STORE[j].key # STORE[i].key
                     /\ STORE[j].item.value # STORE[i].item.value
  /\ (resp.op = "create" /\ resp.status = 409) => HoldsValue(STORE, resp.value)
  /\ (resp.op = "create" /\ resp.status = 201) => HoldsValue(STORE, resp.value)

\* "ab", "AB" and "a b" are stored as three records
C3_Witness ==
  /\ HoldsValue(STORE, V_ab) /\ HoldsValue(STORE, V_AB) /\ HoldsValue(STORE, V_a_b)
  /\ Len(STORE) >= 3

\* C4: a delete of a stored value answers 204 and removes exactly that
\* record; a delete of a value not stored answers 404 and changes nothing; a
\* get answers 404 exactly when the value is not stored; and a value that is
\* not stored becomes stored only by a successful create of it.
C4_DeleteRemovesExactlyOne ==
  [][ \A v \in Values :
        /\ (Served("delete") /\ resp'.value = v) =>
             IF HoldsValue(STORE, v)
             THEN resp'.status = 204 /\ STORE' = Without(STORE, v)
             ELSE resp'.status = 404 /\ STORE' = STORE
        /\ (Served("get") /\ resp'.value = v) =>
             /\ STORE' = STORE
             /\ resp'.status = IF HoldsValue(STORE, v) THEN 200 ELSE 404
        /\ (~HoldsValue(STORE, v) /\ HoldsValue(STORE', v)) =>
             Served("create") /\ resp'.value = v /\ resp'.status = 201 ]_vars

\* a delete succeeded, its value is gone and two other records remain
C4_Witness ==
  /\ resp.op = "delete" /\ resp.status = 204
  /\ ~HoldsValue(STORE, resp.value)
  /\ Len(STORE) >= 2

\* the record satisfies every present key among is_palindrome, min_length,
\* max_length and word_count
Satisfies(r, filters) ==
  /\ Has(filters, "is_palindrome") => r.properties.is_palindrome = filters["is_palindrome"]
  /\ Has(filters, "min_length") => r.properties.length >= filters["min_length"]
  /\ Has(filters, "max_length") => r.properties.length <= filters["max_length"]
  /\ Has(filters, "word_count") => r.properties.word_count = filters["word_count"]

\* the lowercased character occurs in the lowercased value
OccursIgnoringCase(ch, value) ==
  \E i \in 1..Len(value) : LowerChar(value[i]) = LowerChar(ch)

\* C5: list-with-filters keeps a record under contains_character exactly
\* when the lowercased character occurs in the lowercased value.
C5_ContainsCharacterIgnoresCase ==
  (resp.op = "list" /\ resp.status = 200 /\ Has(resp.filters, "contains_character")) =>
    LET Kept(r) == /\ Satisfies(r, resp.filters)
                   /\ OccursIgnoringCase(resp.filters["contains_character"][1], r.value)
    IN  resp.data = SelectSeq(DictValues(STORE), Kept)

\* C6: list-with-filters answers, in the store's order, exactly the records
\* that satisfy every present key among is_palindrome, min_length,
\* max_length and word_count; with no key it answers every record; count is
\* the number of records answered; the store is left unchanged.
C6_FiltersConjoined ==
  [][ Served("list") =>
        LET Kept(r) == Satisfies(r, resp'.filters)
        IN  /\ resp'.status = 200
            /\ resp'.data = SelectSeq(DictValues(STORE), Kept)
            /\ resp'.count = Len(resp'.data)
            /\ (resp'.filters = EmptyDict => resp'.data = DictValues(STORE))
            /\ STORE' = STORE ]_vars

\* two keys are present; some records are kept and some are dropped
C6_Witness ==
  /\ resp.op = "list" /\ resp.status = 200
  /\ Has(resp.filters, "is_palindrome") /\ Has(resp.filters, "min_length")
  /\ Len(resp.data) >= 1 /\ Len(resp.data) < Len(STORE)

W_palindrom == <<"p", "a", "l", "i", "n", "d", "r", "o", "m">>
W_single_word == <<"s", "i", "n", "g", "l", "e", " ", "w", "o", "r", "d">>
W_single_hyphen_word == <<"s", "i", "n", "g", "l", "e", "-", "w", "o", "r", "d">>
W_one_word == <<"o", "n", "e", " ", "w", "o", "r", "d">>
W_vowel == <<"v", "o", "w", "e", "l">>
W_first == <<"f", "i", "r", "s", "t">>

\* the query as the patterns read it
Lowered(query) == Strip(Lower(query))

\* an explicit "letter <c>" pattern is found
LetterFound(q) == SearchLetter(q) # <<>>

\* a "containing <c>" pattern is found
ContainingFound(q) == SearchContaining(q) # <<>>

\* C7, as claimed: "vowel" with no explicit letter gives contains_character
\* "a"; an explicit "letter <c>" gives c, with or without "vowel".
C7_VowelDefaultsToA ==
  resp.op = "nl" =>
    LET q == Lowered(resp.query)
    IN  /\ LetterFound(q) =>
             /\ resp.status = 200
             /\ resp.parsed["contains_character"] = SearchLetter(q)[1]
        /\ (Contains(q, W_vowel) /\ ~LetterFound(q)) =>
             /\ resp.status = 200
             /\ Has(resp.parsed, "contains_character")
             /\ resp.parsed["contains_character"] = <<"a">>

\* C7, amended: an explicit "letter <c>" gives contains_character c, with or
\* without "vowel"; with no explicit letter, a "containing <c>" pattern gives
\* c; with neither, a query holding both "first" and "vowel" gives "a"; and
\* nothing else sets contains_character ("vowel" alone does not).
C7_FirstVowelDefaultsToA ==
  resp.op = "nl" =>
    LET q == Lowered(resp.query)
        firstVowel == Contains(q, W_first) /\ Contains(q, W_vowel)
    IN  /\ LetterFound(q) =>
             /\ resp.status = 200
             /\ resp.parsed["contains_character"] = SearchLetter(q)[1]
        /\ (~LetterFound(q) /\ ContainingFound(q)) =>
             /\ resp.status = 200
             /\ resp.parsed["contains_character"] = SearchContaining(q)[1]
        /\ (~LetterFound(q) /\ ~ContainingFound(q) /\ firstVowel) =>
             /\ resp.status = 200
             /\ resp.parsed["contains_character"] = <<"a">>
        /\ (~LetterFound(q) /\ ~ContainingFound(q) /\ ~firstVowel) =>
             ~Has(resp.parsed, "contains_character")

\* an explicit letter was found in a query that also holds "first" and
\* "vowel", and the letter was kept
C7_Witness ==
  /\ resp.op = "nl" /\ resp.status = 200
  /\ LetterFound(Lowered(resp.query))
  /\ Contains(Lowered(resp.query), W_first) /\ Contains(Lowered(resp.query), W_vowel)
  /\ resp.parsed["contains_character"] = <<"x">>

\* C8, as claimed: the query is refused exactly when it matches none of
\* "palindrom", "single word", "single-word", "one word", "longer than <N>",
\* "letter <c>" and "vowel".
C8_RefusedIffNoClaimedPattern ==
  resp.op = "nl" =>
    LET q == Lowered(resp.query)
    IN  resp.status = 400 <=>
          ~ \/ Contains(q, W_palindrom)
            \/ Contains(q, W_single_word) \/ Contains(q, W_single_hyphen_word)
            \/ Contains(q, W_one_word)
            \/ SearchLongerThan(q) # <<>>
            \/ LetterFound(q)
            \/ Contains(q, W_vowel)

\* C8, amended: the query is refused with 400 exactly when it matches none
\* of "palindrom", "single word", "single-word", "longer than <N>",
\* "letter <c>", "containing <c>" and the pair "first" and "vowel"; a refusal
\* leaves the store unchanged and answers no record and no filter; any other
\* query is answered 200 with a non-empty set of filters, the store unchanged.
C8_RefusedIffNoPattern ==
  [][ (pending # <<>> /\ pending' = <<>>) =>
        LET q == Lowered(pending)
            matched == \/ Contains(q, W_palindrom)
                       \/ Contains(q, W_single_word) \/ Contains(q, W_single_hyphen_word)
                       \/ SearchLongerThan(q) # <<>>
                       \/ LetterFound(q)
                       \/ ContainingFound(q)
                       \/ (Contains(q, W_first) /\ Contains(q, W_vowel))
        IN  /\ resp'.op = "nl" /\ resp'.query = pending
            /\ STORE' = STORE
            /\ ~matched => /\ resp'.status = 400
                           /\ resp'.data = <<>>
                           /\ resp'.parsed = EmptyDict
            /\ matched => /\ resp'.status = 200
                          /\ resp'.parsed # EmptyDict ]_vars

\* a query with no pattern was refused while a record was stored
C8_Witness ==
  /\ resp.op = "nl" /\ resp.status = 400
  /\ Len(STORE) >= 1
  /\ resp.data = <<>>

\* C9: the filters answered hold is_palindrome exactly when the lowercased
\* query holds "palindrom", and then it is true; is_palindrome = false is
\* never produced.
C9_PalindromeKeyOnlyFromPalindrom ==
  (resp.op = "nl" /\ resp.status = 200) =>
    /\ Has(resp.parsed, "is_palindrome") <=> Contains(Lowered(resp.query), W_palindrom)
    /\ Has(resp.parsed, "is_palindrome") => resp.parsed["is_palindrome"] = TRUE

\* C1: when two creates of one value have finished and no other request was
\* about that value, exactly one succeeded and the other was refused with 409.
C1_OneCreateSucceeds ==
  \A t1, t2 \in Threads :
    ( /\ t1 # t2
      /\ threads[t1].pc = "done" /\ threads[t1].op = "create"
      /\ threads[t2].pc = "done" /\ threads[t2].op = "create"
      /\ threads[t1].value = threads[t2].value
      /\ \A t3 \in Threads \ {t1, t2} : threads[t3].value # threads[t1].value )
    => {threads[t1].status, threads[t2].status} = {201, 409}

\* C10: every finished delete ended in success (204) or NotFoundError (404).
C10_DeleteEndsInSuccessOrNotFound ==
  \A t \in Threads :
    (threads[t].pc = "done" /\ threads[t].op = "delete") =>
      threads[t].status \in {204, 404}

====
